---- MODULE Spec2Model ----
(***************************************************************************)
(* Model of the UptimeRobot v3 watcher (app/uptimerobot_v3_watcher.py):    *)
(* the poll loop run_loop, the weekly bucket, the rate-limited dispatcher  *)
(* maybe_send and the weekly report scheduler.                             *)
(*                                                                         *)
(* One poll cycle is a sequence of steps (pc): begin -> transition ->      *)
(* slow -> uptime -> weekly -> persist -> sleep.  An exception raised in a *)
(* step is caught by the "except Exception" of run_loop: the rest of the   *)
(* cycle is skipped and the loop sleeps.  The clock does not advance       *)
(* inside a cycle; it advances while the loop sleeps or while the process  *)
(* is down.  Time is counted in ticks on the local clock, tick 0 being a   *)
(* Monday 00:00 local; the UTC clock differs by a fixed offset that        *)
(* cancels in every difference the code takes.  A process whose start-up   *)
(* raises (the lines of run_loop before the loop) is at pc = "crashed"     *)
(* until it is started again.                                              *)
(***************************************************************************)
EXTENDS Integers, Sequences, FiniteSets, TLC

VARIABLES
    env,                \* what the environment may do in this behaviour (fixed)
    now,                \* the clock, in ticks
    pc,                 \* position of run_loop in its cycle
    state,              \* the in-memory state dict of run_loop
    file,               \* the state document on disk (STATE_FILE)
    slow_streak,        \* run_loop's local slow_streak
    last_uptime_check,  \* run_loop's local last_uptime_check
    payload,            \* the monitor payload fetched by the current cycle
    events,             \* the alerts raised by the current cycle, in order
    lastCycle,          \* how the previous cycle ended: "none", "ok", "error"
    cycles,             \* number of cycles begun
    restarts,           \* number of process restarts
    g_begin,            \* history: state and file when the current cycle began
    g_run,              \* history: OutageStart raised in the current run of Down samples
    g_outage,           \* history: when the current run of Down samples began
    g_recovery,         \* history: the Down->Up branch taken by the current cycle
    g_report,           \* history: weekly report send attempts per bucket
    g_lastNonBypass,    \* history: time of the last delivered non-bypass alert
    g_lastBypass,       \* history: time of the last delivered bypass alert
    g_boot,             \* history: the bucket of the outage the process was restarted in,
                        \* and the verdict of the current sample
    g_slow,             \* history: the current run of slow samples and its alerts
    g_done,             \* history: some cycle ran to its end and wrote the document
    g_prev,             \* history: verdict of the previous cycle, if it ran to its end
    g_webhook,          \* history: the last alert the webhook forwarded since the cycle began
    fail_streak         \* probe mode: the consecutive failed-probe counter

vars == << env, now, pc, state, file, slow_streak, last_uptime_check, payload,
           events, lastCycle, cycles, restarts, g_begin, g_run, g_outage,
           g_recovery, g_report, g_lastNonBypass, g_slow, g_done, g_prev,
           g_webhook, fail_streak, g_lastBypass, g_boot >>

-----------------------------------------------------------------------------
(* Bounds of the model *)

MaxCycles ==
    3

MaxRestarts ==
    1

\* Resolution of the clock: ticks per second (datetime has 10^6).
TicksPerSec ==
    2

-----------------------------------------------------------------------------
(* Optional values: Python's None and a present value *)

None == <<>>

Some(x) == <<x>>

Val(o) == o[1]

(* Calendar arithmetic on ticks (datetime.weekday, .hour, .minute) *)

Second == TicksPerSec

Minute == 60 * Second

Hour == 60 * Minute

Day == 24 * Hour

Week == 7 * Day

weekday(t) == (t \div Day) % 7

hour(t) == (t \div Hour) % 24

minute(t) == (t \div Minute) % 60

now_local(t) == t

\* timedelta.total_seconds() truncated by int(): whole seconds in a tick span
int_total_seconds(d) == d \div TicksPerSec

_iso(t) == Some(t)

_parse_iso(s) == IF s = None THEN None ELSE Some(Val(s))

-----------------------------------------------------------------------------
(* Configuration *)

\* Uptime ratios are percentages in tenths (99.5 % = 995).
DefaultConfig ==
    [ watch_interval_s           |-> 60,
      slow_ms_threshold          |-> 2500,
      slow_consecutive           |-> 3,
      uptime_24h_min             |-> 995,
      uptime_7d_min              |-> 990,
      uptime_check_every_minutes |-> 60,
      alert_min_interval_s       |-> 900,
      recover_bypass_rate_limit  |-> TRUE,
      weekly_report_enabled      |-> TRUE,
      weekly_report_weekday      |-> 0,
      weekly_report_hour         |-> 9,
      weekly_report_minute       |-> 0 ]

cfg == env.cfg

-----------------------------------------------------------------------------
(* The state dict and the state document *)

FreshBucket(ws) ==
    [ week_start_local                  |-> ws,
      incidents                         |-> 0,
      downtime_seconds                  |-> 0,
      slow_alerts                       |-> 0,
      resp_min_ms                       |-> None,
      resp_max_ms                       |-> None,
      down_started_at_utc               |-> None,
      last_weekly_report_sent_for_start |-> None ]

\* The empty dict {} as read through state.get(key, default); a missing
\* "weekly" is a bucket without week_start_local.
EmptyState ==
    [ is_down              |-> FALSE,
      slow_streak          |-> 0,
      last_alert_sent_at   |-> None,
      last_uptime_check_at |-> None,
      weekly               |-> FreshBucket(None) ]

NoFile == <<>>

\* Documents that are not a state written by save_state: text that is not
\* JSON (garbage, or the beginning of a document whose write was cut short),
\* JSON whose root is not an object, and an object whose "weekly" is not an
\* object
Unparsable == << [doc |-> "unparsable"] >>

NonObjectRoot == << [doc |-> "non_object_root"] >>

NonObjectWeekly == << [doc |-> "non_object_weekly"] >>

Foreign(f) == f # NoFile /\ "doc" \in DOMAIN f[1]

\* load_state as the record the loop reads through state.get; what is not a
\* state written by save_state reads as the empty dict here, and
\* StartFails tells where run_loop cannot use what load_state returned
load_state(f) == IF f = NoFile \/ Foreign(f) THEN EmptyState ELSE f[1]

\* state.get on a root that is not a dict, cur.get on a "weekly" that is
\* not a dict: AttributeError in the ensure_week_bucket of line 423
StartFails(f) == Foreign(f) /\ f[1].doc \in {"non_object_root", "non_object_weekly"}

save_state(st) == << st >>

-----------------------------------------------------------------------------
(* Weekly bucket *)

_start_of_week_local(t) == (t - (t % Day)) - weekday(t) * Day

\* A rollover that gives the bucket its new week and keeps what it counted
ensure_week_bucket_keeping(st, t) ==
    [st EXCEPT !.weekly.week_start_local =
                   _iso(_start_of_week_local(now_local(t)))]

ensure_week_bucket(st, t) ==
    LET week_start == _start_of_week_local(now_local(t))
        cur_start  == _parse_iso(st.weekly.week_start_local)
    IN  IF cur_start = None
        THEN [st EXCEPT !.weekly = FreshBucket(_iso(week_start))]
        ELSE IF Val(cur_start) # week_start
             THEN [st EXCEPT !.weekly = FreshBucket(_iso(week_start))]
             ELSE st

update_weekly_metrics(st, resp_ms) ==
    IF resp_ms = None
    THEN st
    ELSE LET r  == Val(resp_ms)
             mn == st.weekly.resp_min_ms
             mx == st.weekly.resp_max_ms
             w1 == IF mn = None \/ r < Val(mn)
                   THEN [st.weekly EXCEPT !.resp_min_ms = Some(r)]
                   ELSE st.weekly
             w2 == IF mx = None \/ r > Val(mx)
                   THEN [w1 EXCEPT !.resp_max_ms = Some(r)]
                   ELSE w1
         IN  [st EXCEPT !.weekly = w2]

mark_weekly_down_transition(st, t) ==
    LET w1 == [st.weekly EXCEPT !.incidents = @ + 1]
        w2 == IF w1.down_started_at_utc = None
              THEN [w1 EXCEPT !.down_started_at_utc = _iso(t)]
              ELSE w1
    IN  [st EXCEPT !.weekly = w2]

mark_weekly_up_transition(st, t) ==
    LET started == _parse_iso(st.weekly.down_started_at_utc)
        w1 == IF started # None
              THEN [st.weekly EXCEPT !.downtime_seconds =
                        @ + int_total_seconds(t - Val(started))]
              ELSE st.weekly
    IN  [st EXCEPT !.weekly = [w1 EXCEPT !.down_started_at_utc = None]]

mark_weekly_slow_alert(st) ==
    [st EXCEPT !.weekly.slow_alerts = @ + 1]

should_send_weekly_report(c, st, t) ==
    LET dt_local == now_local(t)
    IN  /\ c.weekly_report_enabled
        /\ weekday(dt_local) = c.weekly_report_weekday
        /\ hour(dt_local) = c.weekly_report_hour
        /\ minute(dt_local) = c.weekly_report_minute
        /\ ~ ( /\ st.weekly.week_start_local # None
               /\ st.weekly.last_weekly_report_sent_for_start
                      = st.weekly.week_start_local )

-----------------------------------------------------------------------------
(* The monitor payload and what the extractors read from it *)

\* payload["status"]: a string, a number, or missing
StrStatus(text) == [kind |-> "str", text |-> text, code |-> 0]

NumStatus(code) == [kind |-> "num", text |-> "", code |-> code]

NoStatus == [kind |-> "none", text |-> "", code |-> 0]

\* A value of the payload: a JSON number, or a string that float() accepts
\* (numeric) or rejects (junk); ratios are in tenths of a percent
Num(n) == [kind |-> "num", n |-> n]

NumStr(n) == [kind |-> "numstr", n |-> n]

Junk == [kind |-> "junk", n |-> 0]

\* One uptime ratio of the payload: what the payload holds under the three
\* top-level field names (uptime_24h, uptime24h, uptime_1d; or the 7d ones)
\* and under the two keys of the nested object (24h, 1d; or 7d, 7days), in
\* the order extract_uptime_ratios reads them; None where the key is missing
Ratio(top, nested) == [top |-> top, nested |-> nested]

NoRatio == Ratio(<<None, None, None>>, <<None, None>>)

TopRatio(v) == Ratio(<<Some(v), None, None>>, <<None, None>>)

NestedRatio(v) == Ratio(<<None, None, None>>, <<Some(v), None>>)

Payload(status, resp, u24, u7) ==
    [status |-> status, resp |-> resp, u24 |-> u24, u7 |-> u7]

NoPayload == Payload(NoStatus, None, NoRatio, NoRatio)

\* str.lower on the status texts the model uses
lower(text) ==
    CASE text = "DOWN" -> "down"
      [] text = "Up"   -> "up"
      [] OTHER         -> text

\* (status_text, status_code)
extract_status(p) ==
    IF p.status.kind = "str"
    THEN [status_text |-> Some(lower(p.status.text)), status_code |-> None]
    ELSE IF p.status.kind = "num"
         THEN [status_text |-> None, status_code |-> Some(p.status.code)]
         ELSE [status_text |-> None, status_code |-> None]

extract_response_time_ms(p) == p.resp

\* Python's truth value of what mon.get returns: None, the number 0 and the
\* empty string are false (the strings of the model are not empty)
Truthy(x) == x # None /\ (Val(x).kind = "num" => Val(x).n # 0)

\* a or b or ...: the first operand that is true, else the last operand
RECURSIVE OrChain(_)
OrChain(xs) ==
    IF Len(xs) = 1 \/ Truthy(Head(xs)) THEN Head(xs) ELSE OrChain(Tail(xs))

\* float(v), None when v is None or float() raises
_try_float(x) ==
    IF x = None \/ Val(x).kind = "junk" THEN None ELSE Some(Val(x).n)

\* (u24, u7): the top-level fields, and the nested object only when neither
\* top-level ratio was found
extract_uptime_ratios(p) ==
    LET uptime_24h == _try_float(OrChain(p.u24.top))
        uptime_7d  == _try_float(OrChain(p.u7.top))
    IN  IF uptime_24h # None \/ uptime_7d # None
        THEN [u24 |-> uptime_24h, u7 |-> uptime_7d]
        ELSE [u24 |-> _try_float(OrChain(p.u24.nested)),
              u7  |-> _try_float(OrChain(p.u7.nested))]

DownTexts == {"down", "seems_down", "paused", "unknown"}

DownCodes == {8, 9}

\* run_loop's "DOWN detection"
is_down_of(p) ==
    LET s  == extract_status(p)
        d1 == IF s.status_text # None /\ Val(s.status_text) # ""
              THEN Val(s.status_text) \in DownTexts
              ELSE FALSE
    IN  IF s.status_code # None
        THEN Val(s.status_code) \in DownCodes
        ELSE d1

-----------------------------------------------------------------------------
(* The dispatcher *)

\* What one call of send_whatsapp_text followed by save_state can do:
\*   "ok"             the message is delivered and the state written
\*   "blibsend_error" the messaging service answers with an error (BlibsendError)
\*   "exception"      the outbound call fails below the client (connection
\*                    error, timeout, unparsable answer): not a BlibsendError
\*   "save_error"     the message is delivered and writing the state fails
Outcomes == {"ok", "blibsend_error", "exception", "save_error"}

Delivered(result) == result \in {"sent", "sent_save_failed"}

Raised(result) == result \in {"exception", "sent_save_failed"}

\* The rate limit test of maybe_send
RateLimited(c, st, t) ==
    LET last_dt == _parse_iso(st.last_alert_sent_at)
    IN  /\ last_dt # None
        /\ t - Val(last_dt) < c.alert_min_interval_s * Second

\* What a send with outcome o leaves behind once the rate limit test has let
\* the alert through (the try block of maybe_send)
send_and_record(st, fl, t, o) ==
    IF o = "ok"
    THEN LET st1 == [st EXCEPT !.last_alert_sent_at = _iso(t)]
         IN  [state |-> st1, file |-> save_state(st1), result |-> "sent"]
    ELSE IF o = "save_error"
         THEN [state  |-> [st EXCEPT !.last_alert_sent_at = _iso(t)],
               file   |-> fl,
               result |-> "sent_save_failed"]
         ELSE [state |-> st, file |-> fl, result |-> o]

\* A dispatcher that applies the rate limit test to every alert, whatever
\* bypass_rate_limit is
maybe_send_always_limited(c, st, fl, t, bypass_rate_limit, o) ==
    IF RateLimited(c, st, t)
    THEN [state |-> st, file |-> fl, result |-> "dropped"]
    ELSE send_and_record(st, fl, t, o)

\* A dispatcher without the rate limit test
maybe_send_never_limited(c, st, fl, t, bypass_rate_limit, o) ==
    send_and_record(st, fl, t, o)

\* A dispatcher that records the time of the attempt even when the send fails
maybe_send_records_failure(c, st, fl, t, bypass_rate_limit, o) ==
    IF ~bypass_rate_limit /\ RateLimited(c, st, t)
    THEN [state |-> st, file |-> fl, result |-> "dropped"]
    ELSE IF o \in {"blibsend_error", "exception"}
         THEN [state  |-> [st EXCEPT !.last_alert_sent_at = _iso(t)],
               file   |-> fl,
               result |-> o]
         ELSE send_and_record(st, fl, t, o)

\* maybe_send: the state and the document after the call, and what happened:
\* "dropped", "sent", "blibsend_error", "exception" or "sent_save_failed"
\* A dispatcher that sends a bypass alert without recording its time
maybe_send_bypass_unrecorded(c, st, fl, t, bypass_rate_limit, o) ==
    IF bypass_rate_limit
    THEN [state  |-> st, file |-> fl,
          result |-> send_and_record(st, fl, t, o).result]
    ELSE IF RateLimited(c, st, t)
         THEN [state |-> st, file |-> fl, result |-> "dropped"]
         ELSE send_and_record(st, fl, t, o)

maybe_send(c, st, fl, t, bypass_rate_limit, o) ==
    IF ~bypass_rate_limit /\ RateLimited(c, st, t)
    THEN [state |-> st, file |-> fl, result |-> "dropped"]
    ELSE send_and_record(st, fl, t, o)

\* One alert of a cycle, as recorded in events
\* What send_weekly_report puts in the message: the period and the counters
\* of state["weekly"]
weekly_report_message(st, t) ==
    LET w == st.weekly
    IN  [ week_start_local |-> IF _parse_iso(w.week_start_local) # None
                               THEN Val(_parse_iso(w.week_start_local))
                               ELSE now_local(t),
          week_end_local   |-> now_local(t),
          incidents        |-> w.incidents,
          downtime_seconds |-> w.downtime_seconds,
          slow_alerts      |-> w.slow_alerts,
          resp_min         |-> w.resp_min_ms,
          resp_max         |-> w.resp_max_ms ]

Event(kind, bypass, c, st, t, r) ==
    [ kind    |-> kind,
      report  |-> IF kind = "WeeklyReport"
                  THEN Some(weekly_report_message(st, t))
                  ELSE None,
      bypass  |-> bypass,
      limited |-> RateLimited(c, st, t),
      before  |-> st.last_alert_sent_at,
      result  |-> r.result,
      after   |-> r.state.last_alert_sent_at,
      gap     |-> IF g_lastNonBypass = None
                  THEN None
                  ELSE Some(t - Val(g_lastNonBypass)),
      bgap    |-> IF g_lastBypass = None
                  THEN None
                  ELSE Some(t - Val(g_lastBypass)) ]

-----------------------------------------------------------------------------
(* The poll loop *)

\* run_loop before its first cycle: load_state, ensure_week_bucket and the
\* two locals read from the state
\* A start that takes the monitor to be Up whatever the document says
Started_forgetting_outage(fl, t) ==
    LET st == ensure_week_bucket(load_state(fl), t)
    IN  [state |-> [st EXCEPT !.is_down = FALSE],
         slow_streak |-> st.slow_streak,
         last_uptime_check |-> st.last_uptime_check_at]

Started(fl, t) ==
    LET st == ensure_week_bucket(load_state(fl), t)
    IN  [state |-> st,
         slow_streak |-> st.slow_streak,
         last_uptime_check |-> st.last_uptime_check_at]

\* A loop that an exception of the dispatcher ends
After_ending(r, next) == IF Raised(r) THEN "ended" ELSE next

\* Where the loop goes after an alert was dispatched with result r
After(r, next) == IF Raised(r) THEN "sleep" ELSE next

Ended(r) == IF Raised(r) THEN "error" ELSE lastCycle

\* history: a bypass alert among the alerts of the current cycle was delivered
NoteBypass(evs) ==
    IF \E i \in 1..Len(evs) : Delivered(evs[i].result) /\ evs[i].bypass
    THEN Some(now)
    ELSE g_lastBypass

\* The time g of a delivered alert, while the document st still records an
\* alert sent then or later
Kept(st, g) ==
    IF /\ g # None
       /\ \/ st.last_alert_sent_at = None
          \/ Val(st.last_alert_sent_at) < Val(g)
    THEN None
    ELSE g

NoteDelivered(evs) ==
    IF \E i \in 1..Len(evs) : Delivered(evs[i].result) /\ ~evs[i].bypass
    THEN Some(now)
    ELSE g_lastNonBypass

\* history: the cycle at which the monitor was first seen Down
NoteDown(p) ==
    IF is_down_of(p) /\ g_outage = None THEN Some(now) ELSE g_outage

\* The cycle starts and v3_get_monitor returns payload p
\* A cycle that fetches the sample without rolling the bucket over first
PollOk_without_rollover(p) ==
    /\ pc = "begin"
    /\ cycles < MaxCycles
    /\ state' = update_weekly_metrics(state, extract_response_time_ms(p))
    /\ payload' = p
    /\ events' = <<>>
    /\ cycles' = cycles + 1
    /\ pc' = "transition"
    /\ g_begin' = [state |-> state, file |-> file,
                   slow_streak |-> slow_streak]
    /\ g_run' = IF is_down_of(p) THEN g_run ELSE 0
    /\ g_outage' = NoteDown(p)
    /\ g_recovery' = None
    /\ g_boot' = IF g_boot = None
                THEN None
                ELSE Some([Val(g_boot) EXCEPT
                             !.sample = IF is_down_of(p) THEN "down" ELSE "up"])
    /\ UNCHANGED << env, fail_streak, g_lastBypass, g_webhook,
                    now, file, slow_streak, last_uptime_check, lastCycle,
                    restarts, g_report, g_lastNonBypass,
                    g_slow, g_done, g_prev >>

PollOk(p) ==
    /\ pc = "begin"
    /\ cycles < MaxCycles
    /\ state' = update_weekly_metrics(ensure_week_bucket(state, now),
                                      extract_response_time_ms(p))
    /\ payload' = p
    /\ events' = <<>>
    /\ cycles' = cycles + 1
    /\ pc' = "transition"
    /\ g_begin' = [state |-> state, file |-> file,
                   slow_streak |-> slow_streak]
    /\ g_run' = IF is_down_of(p) THEN g_run ELSE 0
    /\ g_outage' = NoteDown(p)
    /\ g_recovery' = None
    /\ g_boot' = IF g_boot = None
                THEN None
                ELSE Some([Val(g_boot) EXCEPT
                             !.sample = IF is_down_of(p) THEN "down" ELSE "up"])
    /\ UNCHANGED << env, fail_streak, g_lastBypass, g_webhook,
                    now, file, slow_streak, last_uptime_check, lastCycle,
                    restarts, g_report, g_lastNonBypass,
                    g_slow, g_done, g_prev >>

\* The cycle starts and v3_get_monitor raises (network, HTTP status, JSON)
PollError ==
    /\ pc = "begin"
    /\ cycles < MaxCycles
    /\ state' = ensure_week_bucket(state, now)
    /\ payload' = NoPayload
    /\ events' = <<>>
    /\ cycles' = cycles + 1
    /\ pc' = "sleep"
    /\ lastCycle' = "error"
    /\ g_begin' = [state |-> state, file |-> file,
                   slow_streak |-> slow_streak]
    /\ g_recovery' = None
    /\ UNCHANGED << env, fail_streak, g_boot, g_lastBypass, g_webhook,
                    now, file, slow_streak, last_uptime_check, restarts,
                    g_run, g_outage, g_report, g_lastNonBypass,
                    g_slow, g_done, g_prev >>

\* The Up->Down and Down->Up branches of run_loop
Transition(o) ==
    /\ pc = "transition"
    /\ LET is_down   == is_down_of(payload)
           prev_down == state.is_down
       IN  IF is_down /\ ~prev_down
           THEN LET st1 == mark_weekly_down_transition(state, now)
                    r   == maybe_send(cfg, st1, file, now, FALSE, o)
                    e   == Event("OutageStart", FALSE, cfg, st1, now, r)
                IN  /\ state' = r.state
                    /\ file' = r.file
                    /\ events' = Append(events, e)
                    /\ pc' = After(r.result, "slow")
                    /\ lastCycle' = Ended(r.result)
                    /\ g_run' = g_run + 1
                    /\ g_lastNonBypass' = NoteDelivered(<<e>>)
                    /\ UNCHANGED << g_outage, g_recovery >>
           ELSE IF ~is_down /\ prev_down
           THEN LET st1 == mark_weekly_up_transition(state, now)
                    by  == cfg.recover_bypass_rate_limit
                    r   == maybe_send(cfg, st1, file, now, by, o)
                    e   == Event("Recovery", by, cfg, st1, now, r)
                IN  /\ state' = r.state
                    /\ file' = r.file
                    /\ events' = Append(events, e)
                    /\ pc' = After(r.result, "slow")
                    /\ lastCycle' = Ended(r.result)
                    /\ g_run' = g_run
                    /\ g_outage' = None
                    /\ g_recovery' =
                           Some([since |-> g_outage,
                                 at    |-> now,
                                 added |-> st1.weekly.downtime_seconds
                                             - state.weekly.downtime_seconds])
                    /\ g_lastNonBypass' = NoteDelivered(<<e>>)
           ELSE /\ pc' = "slow"
                /\ g_outage' = IF is_down THEN g_outage ELSE None
                /\ UNCHANGED << state, file, events, lastCycle, g_run,
                                g_recovery, g_lastNonBypass >>
    /\ g_lastBypass' = NoteBypass(events')
    /\ UNCHANGED << env, fail_streak, g_boot, g_webhook,
                    now, slow_streak, last_uptime_check, payload, cycles,
                    restarts, g_begin, g_report,
                    g_slow, g_done, g_prev >>

\* history: one more sample seen by the slow step, slow or not, with or
\* without a SlowResponse alert
NoteSlow(is_slow, alert) ==
    IF is_slow
    THEN [n      |-> g_slow.n + 1,
          raised |-> g_slow.raised + (IF alert THEN 1 ELSE 0)]
    ELSE [n |-> 0, raised |-> 0]

\* "lentidao consecutiva"
SlowCheck(o) ==
    /\ pc = "slow"
    /\ LET resp_ms == extract_response_time_ms(payload)
           is_slow == resp_ms # None /\ Val(resp_ms) >= cfg.slow_ms_threshold
           streak  == IF is_slow THEN slow_streak + 1 ELSE 0
       IN  IF cfg.slow_ms_threshold > 0 /\ streak >= cfg.slow_consecutive
           THEN LET st1 == mark_weekly_slow_alert(state)
                    r   == maybe_send(cfg, st1, file, now, FALSE, o)
                    e   == Event("SlowResponse", FALSE, cfg, st1, now, r)
                IN  /\ state' = r.state
                    /\ file' = r.file
                    /\ events' = Append(events, e)
                    /\ slow_streak' = IF Raised(r.result) THEN streak ELSE 0
                    /\ g_slow' = NoteSlow(is_slow, TRUE)
                    /\ pc' = After(r.result, "uptime")
                    /\ lastCycle' = Ended(r.result)
                    /\ g_lastNonBypass' = NoteDelivered(<<e>>)
           ELSE /\ slow_streak' = streak
                /\ g_slow' = NoteSlow(is_slow, FALSE)
                /\ pc' = "uptime"
                /\ UNCHANGED << state, file, events, lastCycle, g_lastNonBypass >>
    /\ UNCHANGED << env, fail_streak, g_boot, g_lastBypass, g_webhook,
                    now, last_uptime_check, payload, cycles, restarts,
                    g_begin, g_run, g_outage, g_recovery, g_report,
                    g_done, g_prev >>

\* run_loop's do_uptime
do_uptime(c, last, t) ==
    IF last # None /\ _parse_iso(last) # None
    THEN t - Val(_parse_iso(last)) >= c.uptime_check_every_minutes * Minute
    ELSE TRUE

\* "Uptime 24h/7d em frequencia menor"
UptimeCheck(o1, o2) ==
    /\ pc = "uptime"
    /\ IF do_uptime(cfg, last_uptime_check, now)
       THEN LET u     == extract_uptime_ratios(payload)
                low24 == u.u24 # None /\ Val(u.u24) < cfg.uptime_24h_min
                low7  == u.u7 # None /\ Val(u.u7) < cfg.uptime_7d_min
                r1    == maybe_send(cfg, state, file, now, FALSE, o1)
                e1    == Event("LowUptime24h", FALSE, cfg, state, now, r1)
                st1   == IF low24 THEN r1.state ELSE state
                fl1   == IF low24 THEN r1.file ELSE file
                ev1   == IF low24 THEN <<e1>> ELSE <<>>
                stop1 == low24 /\ Raised(r1.result)
                r2    == maybe_send(cfg, st1, fl1, now, FALSE, o2)
                e2    == Event("LowUptime7d", FALSE, cfg, st1, now, r2)
                go7   == low7 /\ ~stop1
                st2   == IF go7 THEN r2.state ELSE st1
                fl2   == IF go7 THEN r2.file ELSE fl1
                ev2   == IF go7 THEN ev1 \o <<e2>> ELSE ev1
                stop2 == stop1 \/ (go7 /\ Raised(r2.result))
            IN  /\ state' = IF stop2
                            THEN st2
                            ELSE [st2 EXCEPT !.last_uptime_check_at = _iso(now)]
                /\ file' = fl2
                /\ events' = events \o ev2
                /\ pc' = IF stop2 THEN "sleep" ELSE "weekly"
                /\ lastCycle' = IF stop2 THEN "error" ELSE lastCycle
                /\ g_lastNonBypass' = NoteDelivered(ev2)
       ELSE /\ pc' = "weekly"
            /\ UNCHANGED << state, file, events, lastCycle, g_lastNonBypass >>
    /\ UNCHANGED << env, fail_streak, g_boot, g_lastBypass, g_webhook,
                    now, slow_streak, last_uptime_check, payload, cycles,
                    restarts, g_begin, g_run, g_outage, g_recovery, g_report,
                    g_slow, g_done, g_prev >>

\* history: one more send attempt of the weekly report for bucket ws
NoteReport(ws) ==
    IF g_report.week = ws
    THEN [g_report EXCEPT !.attempts = @ + 1]
    ELSE [week |-> ws, attempts |-> 1]

\* should_send_weekly_report and send_weekly_report; sv is the outcome of
\* the save_state that ends send_weekly_report
WeeklyReport(o, sv) ==
    /\ pc = "weekly"
    /\ IF should_send_weekly_report(cfg, state, now)
       THEN LET r   == maybe_send(cfg, state, file, now, TRUE, o)
                e   == Event("WeeklyReport", TRUE, cfg, state, now, r)
                st1 == [r.state EXCEPT
                          !.weekly.last_weekly_report_sent_for_start =
                              r.state.weekly.week_start_local]
            IN  /\ events' = Append(events, e)
                /\ g_report' = NoteReport(state.weekly.week_start_local)
                /\ IF Raised(r.result)
                   THEN /\ state' = r.state
                        /\ file' = r.file
                        /\ pc' = "sleep"
                        /\ lastCycle' = "error"
                   ELSE /\ state' = st1
                        /\ file' = IF sv = "ok" THEN save_state(st1) ELSE r.file
                        /\ pc' = IF sv = "ok" THEN "persist" ELSE "sleep"
                        /\ lastCycle' = IF sv = "ok" THEN lastCycle ELSE "error"
       ELSE /\ pc' = "persist"
            /\ UNCHANGED << state, file, events, lastCycle, g_report >>
    /\ g_lastBypass' = NoteBypass(events')
    /\ UNCHANGED << env, fail_streak, g_boot, g_webhook,
                    now, slow_streak, last_uptime_check, payload, cycles,
                    restarts, g_begin, g_run, g_outage, g_recovery,
                    g_lastNonBypass,
                    g_slow, g_done, g_prev >>

\* An end of cycle that does not record the verdict of the cycle
Persist_without_verdict(sv) ==
    /\ pc = "persist"
    /\ state' = [state EXCEPT !.slow_streak = slow_streak]
    /\ file' = IF sv = "ok" THEN save_state(state') ELSE file
    /\ lastCycle' = IF sv = "ok" THEN "ok" ELSE "error"
    /\ pc' = "sleep"
    /\ g_done' = (g_done \/ sv = "ok")
    /\ UNCHANGED << env, fail_streak, g_boot, g_lastBypass, g_webhook,
                    now, slow_streak, last_uptime_check, payload, events,
                    cycles, restarts, g_begin, g_run, g_outage, g_recovery,
                    g_report, g_lastNonBypass,
                    g_slow, g_prev >>

\* "persist state": the verdict and the streak enter the state, save_state
Persist(sv) ==
    /\ pc = "persist"
    /\ state' = [state EXCEPT !.is_down = is_down_of(payload),
                              !.slow_streak = slow_streak]
    /\ file' = IF sv = "ok" THEN save_state(state') ELSE file
    /\ lastCycle' = IF sv = "ok" THEN "ok" ELSE "error"
    /\ pc' = "sleep"
    /\ g_done' = (g_done \/ sv = "ok")
    /\ UNCHANGED << env, fail_streak, g_boot, g_lastBypass, g_webhook,
                    now, slow_streak, last_uptime_check, payload, events,
                    cycles, restarts, g_begin, g_run, g_outage, g_recovery,
                    g_report, g_lastNonBypass,
                    g_slow, g_prev >>

\* time.sleep(max(1, ...)): the next cycle runs d ticks later. What the next
\* cycle assigns before it reads (the payload, and the record of the cycle
\* that ended) is cleared here.
Sleep(d) ==
    /\ pc = "sleep"
    /\ cycles < MaxCycles
    /\ d >= Second
    /\ now' = now + d
    /\ pc' = "begin"
    /\ payload' = NoPayload
    /\ events' = <<>>
    /\ lastCycle' = "none"
    /\ g_begin' = [state |-> state, file |-> file,
                   slow_streak |-> slow_streak]
    /\ g_recovery' = None
    /\ g_prev' = IF lastCycle # "ok" THEN "void"
                ELSE IF is_down_of(payload) THEN "down" ELSE "up"
    /\ g_webhook' = None
    /\ g_boot' = IF g_boot = None \/ Val(g_boot).sample = "up"
                THEN None
                ELSE Some([Val(g_boot) EXCEPT !.sample = "none"])
    /\ UNCHANGED << env, fail_streak, g_lastBypass, state, file, slow_streak, last_uptime_check, cycles,
                    restarts, g_run, g_outage, g_report, g_lastNonBypass,
                    g_slow, g_done >>

\* history: a delivery is forgotten when the document the process restarts
\* from does not record it (the write that followed the delivery failed)
StillRecorded(st) ==
    IF /\ g_lastNonBypass # None
       /\ \/ st.last_alert_sent_at = None
          \/ Val(st.last_alert_sent_at) < Val(g_lastNonBypass)
    THEN None
    ELSE g_lastNonBypass

\* The process is started d ticks later with document fl on disk: the lines
\* of run_loop before the loop, which end the process when they raise
Reboot(fl, d) ==
    /\ restarts < MaxRestarts
    /\ cycles < MaxCycles
    /\ restarts' = restarts + 1
    /\ now' = now + d
    /\ file' = fl
    /\ LET s == Started(fl, now + d)
       IN  /\ state' = s.state
           /\ slow_streak' = s.slow_streak
           /\ last_uptime_check' = s.last_uptime_check
           /\ g_begin' = [state |-> s.state, file |-> fl,
                          slow_streak |-> s.slow_streak]
    /\ pc' = IF StartFails(fl) THEN "crashed" ELSE "begin"
    /\ payload' = NoPayload
    /\ events' = <<>>
    /\ lastCycle' = "none"
    /\ g_recovery' = None
    /\ g_lastNonBypass' = StillRecorded(load_state(fl))
    /\ g_lastBypass' = Kept(load_state(fl), g_lastBypass)
    /\ g_boot' = IF /\ pc = "sleep" /\ lastCycle = "ok"
                   /\ fl = file /\ file = save_state(state)
                   /\ state.is_down
                THEN Some([weekly |-> state.weekly, sample |-> "none"])
                ELSE None
    /\ g_prev' = "void"
    /\ g_webhook' = None
    /\ UNCHANGED << env, fail_streak, cycles, g_run, g_outage, g_report, g_slow, g_done >>

\* The process stops wherever it is and is started again d ticks later
Restart(d) == Reboot(file, d)

\* A send of the webhook that goes through maybe_send
webhook_through_dispatcher(c, st, fl, t, o) ==
    maybe_send(c, st, fl, t, FALSE, o)

\* The send of uptimerobot_webhook: send_whatsapp_text is called with the
\* formatted body; o is the outcome of the call. The handler reads and
\* writes nothing of the watcher.
webhook_send(c, st, fl, t, o) ==
    [state |-> st, file |-> fl, result |-> IF o = "ok" THEN "sent" ELSE o]

\* POST /webhook/uptimerobot, served next to the watcher
Webhook(o) ==
    /\ env.name = "webhook"
    /\ LET r == webhook_send(cfg, state, file, now, o)
       IN  /\ state' = r.state
           /\ file' = r.file
           /\ g_webhook' = Some([limited |-> RateLimited(cfg, state, now),
                                 result  |-> r.result,
                                 changed |-> r.state # state \/ r.file # file])
    /\ UNCHANGED << env, fail_streak, g_boot, g_lastBypass, now, pc, slow_streak, last_uptime_check, payload,
                    events, lastCycle, cycles, restarts, g_begin, g_run,
                    g_outage, g_recovery, g_report, g_lastNonBypass, g_slow,
                    g_done, g_prev >>

\* The process is killed inside the write_text of the end-of-cycle
\* save_state, which has truncated the document and not yet written all of
\* it, and is started again d ticks later
CrashInWrite(d) ==
    /\ pc = "persist"
    /\ Reboot(Unparsable, d)

-----------------------------------------------------------------------------
(* The environment of a behaviour: the configuration, the payloads the    *)
(* monitor returns, the time between two cycles, the outcomes of the      *)
(* outbound calls and of the writes, and the time the process starts      *)

UpPayload == Payload(StrStatus("up"), None, NoRatio, NoRatio)

DownPayload == Payload(StrStatus("down"), None, NoRatio, NoRatio)

\* Samples with a response time above and below SLOW_MS_THRESHOLD
SlowUpPayload == Payload(StrStatus("up"), Some(3000), NoRatio, NoRatio)

SlowDownPayload == Payload(StrStatus("down"), Some(3000), NoRatio, NoRatio)

FastUpPayload == Payload(StrStatus("up"), Some(100), NoRatio, NoRatio)

\* Samples without a status, and with a status outside the known texts
NoStatusPayload == Payload(NoStatus, None, NoRatio, NoRatio)

OddStatusPayload == Payload(StrStatus("maintenance"), None, NoRatio, NoRatio)

\* Up samples with uptime ratios: both below their minimum at top level; a
\* 24h ratio of 0; a 24h ratio at top level and a 7d ratio in the nested
\* object; both in the nested object, one as a numeric string; a string that
\* is no number under the first name and a number under the second
LowBothPayload ==
    Payload(StrStatus("up"), None, TopRatio(Num(990)), TopRatio(Num(980)))

ZeroRatioPayload ==
    Payload(StrStatus("up"), None, TopRatio(Num(0)), TopRatio(Num(999)))

MixedRatioPayload ==
    Payload(StrStatus("up"), None, TopRatio(Num(999)), NestedRatio(Num(500)))

NestedRatioPayload ==
    Payload(StrStatus("up"), None, NestedRatio(NumStr(990)),
            NestedRatio(Num(999)))

JunkRatioPayload ==
    Payload(StrStatus("up"), None,
            Ratio(<<Some(Junk), Some(Num(900)), None>>, <<None, None>>),
            NoRatio)

\* Samples that are slow and carry two low ratios, Down and Up
StormDownPayload ==
    Payload(StrStatus("down"), Some(3000),
            TopRatio(Num(990)), TopRatio(Num(980)))

StormUpPayload ==
    Payload(StrStatus("up"), Some(3000),
            TopRatio(Num(990)), TopRatio(Num(980)))

ShortStep == 30 * Second + 1

\* Outages, recoveries and week rollover
OutageEnv ==
    [ name     |-> "outage",
      cfg      |-> DefaultConfig,
      payloads |-> {UpPayload, DownPayload},
      deltas   |-> {ShortStep, Week},
      outcomes |-> {"ok", "exception"},
      start    |-> 6 * Day + 23 * Hour,
      file0    |-> NoFile ]

\* Alerts closer than, and exactly at, the minimum interval, with and without
\* RECOVER_BYPASS_RATE_LIMIT; the gateway refuses messages only in the former
RateEnv(bypass) ==
    [ name     |-> "rate",
      cfg      |-> [DefaultConfig EXCEPT !.recover_bypass_rate_limit = bypass],
      payloads |-> {UpPayload, DownPayload},
      deltas   |-> {ShortStep, DefaultConfig.alert_min_interval_s * Second},
      outcomes |-> IF bypass THEN {"ok", "blibsend_error"} ELSE {"ok"},
      start    |-> 2 * Day,
      file0    |-> NoFile ]

\* The weekly report around its scheduled minute
WeeklyEnv(enabled) ==
    [ name     |-> "weekly",
      cfg      |-> [DefaultConfig EXCEPT !.weekly_report_enabled = enabled],
      payloads |-> {UpPayload},
      deltas   |-> {ShortStep, Hour},
      outcomes |-> Outcomes,
      start    |-> 8 * Hour + 59 * Minute + 29 * Second + 1,
      file0    |-> NoFile ]

\* Slow and fast samples, with SLOW_CONSECUTIVE = 2
SlowEnv ==
    [ name     |-> "slow",
      cfg      |-> [DefaultConfig EXCEPT !.slow_consecutive = 2],
      payloads |-> {SlowUpPayload, SlowDownPayload, FastUpPayload},
      deltas   |-> {ShortStep},
      outcomes |-> {"ok", "exception"},
      start    |-> 2 * Day,
      file0    |-> NoFile ]

\* Samples whose status tells neither Up nor Down, after Down samples
AmbiguousEnv ==
    [ name     |-> "ambiguous",
      cfg      |-> DefaultConfig,
      payloads |-> {DownPayload, NoStatusPayload, OddStatusPayload},
      deltas   |-> {ShortStep},
      outcomes |-> {"ok"},
      start    |-> 2 * Day,
      file0    |-> NoFile ]

\* Samples with uptime ratios, closer than and at UPTIME_CHECK_EVERY_MINUTES
UptimeEnv ==
    [ name     |-> "uptime",
      cfg      |-> DefaultConfig,
      payloads |-> {LowBothPayload, ZeroRatioPayload, MixedRatioPayload,
                    NestedRatioPayload, JunkRatioPayload},
      deltas   |-> {ShortStep, DefaultConfig.uptime_check_every_minutes * Minute},
      outcomes |-> {"ok"},
      start    |-> 2 * Day,
      file0    |-> NoFile ]

\* Alerts arrive on the webhook while the watcher reports an outage
WebhookEnv ==
    [ name     |-> "webhook",
      cfg      |-> DefaultConfig,
      payloads |-> {DownPayload},
      deltas   |-> {ShortStep},
      outcomes |-> {"ok", "blibsend_error"},
      start    |-> 2 * Day,
      file0    |-> NoFile ]

\* Cycles that raise every kind of alert, from the minute of the weekly
\* report on, with SLOW_CONSECUTIVE = 1
StormEnv ==
    [ name     |-> "storm",
      cfg      |-> [DefaultConfig EXCEPT !.slow_consecutive = 1],
      payloads |-> {StormDownPayload, StormUpPayload},
      deltas   |-> {ShortStep},
      outcomes |-> {"ok", "blibsend_error"},
      start    |-> DefaultConfig.weekly_report_hour * Hour,
      file0    |-> NoFile ]

\* A week of slow Down samples that ends at the minute of the weekly report
ReportEnv ==
    [ name     |-> "report",
      cfg      |-> [DefaultConfig EXCEPT !.slow_consecutive = 1],
      payloads |-> {StormDownPayload, UpPayload},
      deltas   |-> {Week - Hour},
      outcomes |-> {"ok"},
      start    |-> (DefaultConfig.weekly_report_hour + 1) * Hour,
      file0    |-> NoFile ]

\* The process starts with a document it did not write
StartEnv(doc) ==
    [ name     |-> "start",
      cfg      |-> DefaultConfig,
      payloads |-> {UpPayload},
      deltas   |-> {ShortStep},
      outcomes |-> {"ok"},
      start    |-> 2 * Day,
      file0    |-> doc ]

Envs ==
    { OutageEnv, SlowEnv, AmbiguousEnv, UptimeEnv, WebhookEnv,
      StormEnv, ReportEnv } \cup { RateEnv(b) : b \in BOOLEAN }
        \cup { WeeklyEnv(b) : b \in BOOLEAN }
        \cup { StartEnv(doc) : doc \in {Unparsable, NonObjectRoot, NonObjectWeekly} }

Init ==
    /\ env \in Envs
    /\ now = env.start
    /\ file = env.file0
    /\ state = Started(env.file0, env.start).state
    /\ slow_streak = Started(env.file0, env.start).slow_streak
    /\ last_uptime_check = Started(env.file0, env.start).last_uptime_check
    /\ pc = IF StartFails(env.file0) THEN "crashed" ELSE "begin"
    /\ payload = NoPayload
    /\ events = <<>>
    /\ lastCycle = "none"
    /\ cycles = 0
    /\ restarts = 0
    /\ g_begin = [state |-> state, file |-> file, slow_streak |-> slow_streak]
    /\ g_run = 0
    /\ g_outage = None
    /\ g_recovery = None
    /\ g_report = [week |-> None, attempts |-> 0]
    /\ g_lastNonBypass = None
    /\ g_lastBypass = None
    /\ g_boot = None
    /\ g_slow = [n |-> 0, raised |-> 0]
    /\ g_done = FALSE
    /\ g_prev = "up"
    /\ g_webhook = None
    /\ fail_streak = 0

SaveOutcomes == env.outcomes \cap {"ok", "save_error"}

Next ==
    \/ \E p \in env.payloads : PollOk(p)
    \/ PollError
    \/ \E o \in env.outcomes : Transition(o)
    \/ \E o \in env.outcomes : SlowCheck(o)
    \/ \E o1, o2 \in env.outcomes : UptimeCheck(o1, o2)
    \/ \E o \in env.outcomes : \E sv \in SaveOutcomes : WeeklyReport(o, sv)
    \/ \E sv \in SaveOutcomes : Persist(sv)
    \/ \E d \in env.deltas : Sleep(d)
    \/ \E d \in env.deltas : Restart(d)
    \/ \E d \in env.deltas : CrashInWrite(d)
    \/ \E o \in env.outcomes \ {"save_error"} : Webhook(o)

Spec == Init /\ [][Next]_vars

\* The steps run_loop takes by itself: a running process goes on to its next
\* statement, while nothing obliges the environment to stop or restart it
LoopStep ==
    \/ \E p \in env.payloads : PollOk(p)
    \/ PollError
    \/ \E o \in env.outcomes : Transition(o)
    \/ \E o \in env.outcomes : SlowCheck(o)
    \/ \E o1, o2 \in env.outcomes : UptimeCheck(o1, o2)
    \/ \E o \in env.outcomes : \E sv \in SaveOutcomes : WeeklyReport(o, sv)
    \/ \E sv \in SaveOutcomes : Persist(sv)
    \/ \E d \in env.deltas : Sleep(d)

\* The runs in which each step of a cycle can fail: the sends of the
\* transition and slow steps, the send and the save of the weekly report,
\* the save that ends the cycle, and the fetch
LiveInit == Init /\ env \in { SlowEnv, WeeklyEnv(TRUE), WebhookEnv }

LiveSpec == LiveInit /\ [][Next]_vars /\ WF_vars(LoopStep)

-----------------------------------------------------------------------------
(* Health-check probe mode. The watcher under src/ runs in monitor-API     *)
(* mode only; the probe-mode variant of the loop is modelled after the      *)
(* specification of the Health State Machine: failStreak counts the         *)
(* consecutive failed probes, and failConsecutive of them take Up to Down.  *)

MaxProbes ==
    5

\* A probe-mode run with FAIL_CONSECUTIVE = n
ProbeEnv(n) ==
    [ name |-> "probe", fail_consecutive |-> n ]

\* A probe-mode loop that leaves Up on the first failed probe
Probe_without_hysteresis(ok) ==
    /\ Len(events) < MaxProbes
    /\ LET streak  == IF ok THEN 0 ELSE fail_streak + 1
           go_down == ~state.is_down /\ ~ok
           go_up   == state.is_down /\ ok
           is_down == IF go_down THEN TRUE ELSE IF go_up THEN FALSE
                      ELSE state.is_down
       IN  /\ fail_streak' = streak
           /\ state' = [state EXCEPT !.is_down = is_down]
           /\ events' = Append(events,
                 [ok |-> ok, streak |-> streak, was_down |-> state.is_down,
                  is_down |-> is_down,
                  kind |-> IF go_down THEN "OutageStart"
                           ELSE IF go_up THEN "Recovery" ELSE "none"])
    /\ now' = now + ShortStep
    /\ UNCHANGED << env, pc, file, slow_streak, last_uptime_check, payload,
                    lastCycle, cycles, restarts, g_begin, g_run, g_outage,
                    g_recovery, g_report, g_lastNonBypass, g_slow, g_done,
                    g_prev, g_webhook, g_lastBypass, g_boot >>

\* One probe and the transition it causes; events keeps one record per probe
\* of the run
Probe(ok) ==
    /\ Len(events) < MaxProbes
    /\ LET streak  == IF ok THEN 0 ELSE fail_streak + 1
           go_down == ~state.is_down /\ ~ok
                          /\ streak >= env.fail_consecutive
           go_up   == state.is_down /\ ok
           is_down == IF go_down THEN TRUE ELSE IF go_up THEN FALSE
                      ELSE state.is_down
       IN  /\ fail_streak' = streak
           /\ state' = [state EXCEPT !.is_down = is_down]
           /\ events' = Append(events,
                 [ok |-> ok, streak |-> streak, was_down |-> state.is_down,
                  is_down |-> is_down,
                  kind |-> IF go_down THEN "OutageStart"
                           ELSE IF go_up THEN "Recovery" ELSE "none"])
    /\ now' = now + ShortStep
    /\ UNCHANGED << env, pc, file, slow_streak, last_uptime_check, payload,
                    lastCycle, cycles, restarts, g_begin, g_run, g_outage,
                    g_recovery, g_report, g_lastNonBypass, g_slow, g_done,
                    g_prev, g_webhook, g_lastBypass, g_boot >>

ProbeInit ==
    /\ env \in { ProbeEnv(n) : n \in 1..3 }
    /\ now = 2 * Day
    /\ file = NoFile
    /\ state = EmptyState
    /\ fail_streak = 0
    /\ slow_streak = 0
    /\ last_uptime_check = None
    /\ pc = "begin"
    /\ payload = NoPayload
    /\ events = <<>>
    /\ lastCycle = "none"
    /\ cycles = 0
    /\ restarts = 0
    /\ g_begin = [state |-> state, file |-> file, slow_streak |-> slow_streak]
    /\ g_run = 0
    /\ g_outage = None
    /\ g_recovery = None
    /\ g_report = [week |-> None, attempts |-> 0]
    /\ g_lastNonBypass = None
    /\ g_lastBypass = None
    /\ g_boot = None
    /\ g_slow = [n |-> 0, raised |-> 0]
    /\ g_done = FALSE
    /\ g_prev = "up"
    /\ g_webhook = None

ProbeNext == \E ok \in BOOLEAN : Probe(ok)

ProbeSpec == ProbeInit /\ [][ProbeNext]_vars

-----------------------------------------------------------------------------
(* Properties *)

\* The steps of a cycle that follow the transition step
PastTransition == pc \in {"slow", "uptime", "weekly", "persist"}

\* The bucket of st is marked as reported
Reported(st) ==
    st.weekly.last_weekly_report_sent_for_start = st.weekly.week_start_local

\* C1: within one uninterrupted outage (a run of cycles in which the monitor
\* reports Down, some of them possibly aborted by an error or followed by a
\* restart) OutageStart is raised, and the incident counter incremented, at
\* most once.
C1_OneOutageStartPerOutage == g_run <= 1

\* C2 as claimed: in every configuration a Recovery alert is handed to the
\* messaging collaborator, never dropped by the rate limiter.
C2_RecoveryNeverDropped ==
    \A i \in 1..Len(events) :
        events[i].kind = "Recovery" => events[i].result # "dropped"

\* C2 as amended: when recover_bypass_rate_limit is set (the default), a cycle
\* that detects Down->Up raises a Recovery alert and hands it to the messaging
\* collaborator whatever last_alert_sent_at is.
C2_RecoveryForwardedWhenBypass ==
    cfg.recover_bypass_rate_limit =>
        /\ C2_RecoveryNeverDropped
        /\ (PastTransition /\ state.is_down /\ ~is_down_of(payload)) =>
               \E i \in 1..Len(events) :
                   /\ events[i].kind = "Recovery"
                   /\ events[i].result # "dropped"

\* A Recovery alert is delivered inside the rate limit window
C2_Witness ==
    /\ cfg.recover_bypass_rate_limit
    /\ \E i \in 1..Len(events) :
           /\ events[i].kind = "Recovery"
           /\ events[i].limited
           /\ events[i].result = "sent"

\* C3: for one bucket (one week_start_local) the weekly report send is
\* attempted at most once.
C3_ReportAtMostOncePerBucket == g_report.attempts <= 1

\* C4: at the cycle that detects Down->Up at T2, the monitor having been Down
\* since the cycle at T1, downtime_seconds grows by floor(T2 - T1) seconds.
C4_DowntimeIsOutageLength ==
    (g_recovery # None /\ Val(g_recovery).since # None) =>
        Val(g_recovery).added =
            (Val(g_recovery).at - Val(Val(g_recovery).since)) \div TicksPerSec

C6_DispatchOutcome ==
    pc # "begin" =>
        /\ \A i \in 1..Len(events) :
               /\ Delivered(events[i].result)
                      => state.last_alert_sent_at = Some(now)
               /\ events[i].result = "sent"
                      => /\ file # NoFile
                         /\ load_state(file).last_alert_sent_at = Some(now)
        /\ ( /\ events # <<>>
             /\ events[Len(events)].result \in {"blibsend_error", "exception"} )
               => /\ state.last_alert_sent_at = events[Len(events)].before
                  /\ RateLimited(cfg, state, now) = events[Len(events)].limited

\* A send fails after an earlier alert was delivered, and the time of that
\* earlier alert is kept
C6_Witness ==
    /\ pc # "begin"
    /\ events # <<>>
    /\ events[Len(events)].result \in {"blibsend_error", "exception"}
    /\ events[Len(events)].before # None
    /\ state.last_alert_sent_at = events[Len(events)].before

\* C7: a cycle that ends with an error leaves the state, in memory and in the
\* document, as it was when the cycle began.
C7_ErrorLeavesStateUntouched ==
    (pc = "sleep" /\ lastCycle = "error") =>
        /\ state = g_begin.state
        /\ file = g_begin.file

\* The tolerance window of the weekly report, as specified: from the
\* configured time of day to 180 minutes later, on the configured weekday
InReportWindow(c, t) ==
    LET tod    == t % Day
        target == c.weekly_report_hour * Hour + c.weekly_report_minute * Minute
    IN  /\ weekday(t) = c.weekly_report_weekday
        /\ tod >= target
        /\ tod - target <= 180 * Minute

\* C8: when reporting is enabled and a cycle completes without error inside
\* the tolerance window, a report send has been attempted for the bucket.
C8_ReportSentWithinWindow ==
    ( /\ pc = "sleep"
      /\ lastCycle = "ok"
      /\ cfg.weekly_report_enabled
      /\ InReportWindow(cfg, now) )
        => /\ g_report.week = state.weekly.week_start_local
           /\ g_report.attempts >= 1

\* C9: should_send_weekly_report is true exactly when reporting is enabled,
\* the time is inside the tolerance window and the bucket is not marked.
C9_ShouldSendIsWindowTest ==
    should_send_weekly_report(cfg, state, now)
        = ( /\ cfg.weekly_report_enabled
            /\ InReportWindow(cfg, now)
            /\ ~Reported(state) )

\* C10: once the report send was attempted (delivered, answered with an error
\* by the messaging service, or failed at transport level) the bucket is marked
\* as reported, and the mark is in the document once it is written.
C10_MarkedAfterAttempt ==
    \A i \in 1..Len(events) :
        ( /\ pc # "begin"
          /\ events[i].kind = "WeeklyReport"
          /\ events[i].result \in {"sent", "blibsend_error", "exception"} )
            => /\ Reported(state)
               /\ pc = "persist" => (file # NoFile /\ Reported(load_state(file)))

\* The current cycle raised a SlowResponse alert
SlowRaised == \E i \in 1..Len(events) : events[i].kind = "SlowResponse"

\* C11: while the process runs, the cycle that raises SlowResponse leaves
\* the streak at 0, and a run of n consecutive slow samples has raised
\* floor(n / slow_consecutive) SlowResponse alerts.
C11_SlowAlertPerStreak ==
    restarts = 0 =>
        /\ (SlowRaised /\ pc # "begin") => slow_streak = 0
        /\ g_slow.raised = g_slow.n \div cfg.slow_consecutive

\* The week of the current time is not the week of the bucket the cycle
\* began with
Rolled ==
    g_begin.state.weekly.week_start_local
        # Some(_start_of_week_local(now_local(now)))

\* C12: once a cycle has begun the bucket is the bucket of the current week;
\* when the week changed, the bucket is a fresh one (counters zero, the rest
\* null) before any metric update, and holds only the sample of this cycle
\* after the update of the extrema.
C12_Rollover ==
    pc \notin {"begin", "crashed"} =>
        LET ws == Some(_start_of_week_local(now_local(now)))
        IN  /\ state.weekly.week_start_local = ws
            /\ (Rolled /\ pc = "transition") =>
                   state.weekly =
                       [FreshBucket(ws) EXCEPT
                            !.resp_min_ms = extract_response_time_ms(payload),
                            !.resp_max_ms = extract_response_time_ms(payload)]
            /\ (Rolled /\ pc = "sleep" /\ lastCycle = "error"
                       /\ payload = NoPayload /\ events = <<>>) =>
                   state.weekly = FreshBucket(ws)

\* A cycle begins in a new week with a bucket that had counted an incident
C12_Witness ==
    /\ pc = "transition"
    /\ Rolled
    /\ g_begin.state.weekly.week_start_local # None
    /\ g_begin.state.weekly.incidents > 0
    /\ state.weekly.incidents = 0

\* C13: between two cycles, down_started_at_utc is set exactly when is_down
\* holds and the outage began in the week of the bucket.
C13_DownStartedIffInOutage ==
    pc = "sleep" =>
        ( state.weekly.down_started_at_utc # None
            <=> ( /\ state.is_down
                  /\ g_outage # None
                  /\ Val(g_outage) >= Val(state.weekly.week_start_local) ) )

\* C14: a document the watcher has written is a whole state, at every
\* moment and whatever stopped the process; and once a cycle has run to its
\* end the document on disk keeps what that cycle recorded (here the time of
\* its uptime check), so that a restart finds it.
C14_CrashSafe ==
    /\ file # env.file0 => (file # NoFile /\ ~Foreign(file))
    /\ g_done => load_state(file).last_uptime_check_at # None

\* C16: a process started without a document, or with one that is not a
\* state (not JSON, a root that is not an object, a "weekly" that is not an
\* object), runs, and begins with the empty state: Up, streak 0, a fresh
\* bucket for the current week.
C16_ForeignDocumentIsEmpty ==
    (cycles = 0 /\ (file = NoFile \/ Foreign(file))) =>
        /\ pc = "begin"
        /\ state = [EmptyState EXCEPT !.weekly =
                        FreshBucket(Some(_start_of_week_local(now_local(now))))]
        /\ slow_streak = 0
        /\ last_uptime_check = None

\* C15: between two cycles, writing the state and starting from what was
\* written gives the state and the two working values (slow_streak,
\* last_uptime_check) the running loop has.
C15_RoundTrip ==
    pc = "sleep" =>
        LET r == Started(save_state(state), now)
        IN  /\ r.state = state
            /\ r.slow_streak = slow_streak
            /\ r.last_uptime_check = last_uptime_check

\* C17: a cycle that has begun reaches the sleep of the loop, however its
\* steps end, and the loop that sleeps begins another cycle (as long as the
\* model lets cycles begin).
C17_LoopGoesOn ==
    /\ (pc = "begin" /\ cycles < MaxCycles) ~> (pc = "sleep")
    /\ (pc \notin {"begin", "crashed"} /\ cycles < MaxCycles) ~> (pc = "begin")

\* A cycle has begun after a cycle that an error ended, in the same process
C17_Witness ==
    /\ pc = "transition"
    /\ restarts = 0
    /\ cycles >= 2
    /\ g_prev = "void"

\* The status of p is missing, or is a text outside the vocabulary
Ambiguous(p) ==
    LET s == extract_status(p)
    IN  /\ s.status_code = None
        /\ \/ s.status_text = None
           \/ Val(s.status_text) \notin ({"up"} \cup DownTexts)

\* C18: a cycle whose sample has an ambiguous status raises neither
\* OutageStart nor Recovery, and ends with the verdict it began with.
C18_AmbiguousIsSilent ==
    (Ambiguous(payload) /\ pc \notin {"begin", "transition", "crashed"}) =>
        /\ \A i \in 1..Len(events) :
               events[i].kind \notin {"OutageStart", "Recovery"}
        /\ (pc = "sleep" /\ lastCycle = "ok") =>
               state.is_down = g_begin.state.is_down

\* The current cycle raised an alert of this kind
RaisedKind(kind) == \E i \in 1..Len(events) : events[i].kind = kind

\* C19: in a cycle that follows a cycle run to its end (or the start from
\* the empty state, which is Up), OutageStart is raised exactly when the
\* sample is Down and the previous verdict was Up, and Recovery exactly when
\* the sample is Up and the previous verdict was Down; so the two alternate.
C19_TransitionsAlternate ==
    (g_prev # "void" /\ PastTransition) =>
        /\ RaisedKind("OutageStart")
               <=> (is_down_of(payload) /\ g_prev = "up")
        /\ RaisedKind("Recovery")
               <=> (~is_down_of(payload) /\ g_prev = "down")
        /\ Len(events) <= 1 \/ pc # "slow"

\* A cycle with an Up sample raises Recovery after a cycle with a Down
\* sample that ran to its end and counted the incident
C19_Witness ==
    /\ pc = "slow"
    /\ restarts = 0
    /\ g_prev = "down"
    /\ ~is_down_of(payload)
    /\ RaisedKind("Recovery")
    /\ g_begin.state.is_down
    /\ g_begin.state.weekly.incidents = 1

\* The sample counts for the slow streak: a response time is present, the
\* status is not Down, and the response time reaches the threshold
Qualifies(p) ==
    /\ extract_response_time_ms(p) # None
    /\ ~is_down_of(p)
    /\ Val(extract_response_time_ms(p)) >= cfg.slow_ms_threshold

\* C20: after the slow step the streak is one more than it was when the
\* sample qualifies (0 when that raised the alert) and 0 when it does not;
\* a cycle aborted by a probe error leaves the streak at 0.
C20_StreakCountsQualifying ==
    /\ pc \in {"uptime", "weekly", "persist"} =>
           IF Qualifies(payload)
           THEN slow_streak = (IF SlowRaised THEN 0 ELSE g_begin.slow_streak + 1)
           ELSE slow_streak = 0
    /\ ( /\ pc = "sleep"
         /\ lastCycle = "error"
         /\ payload = NoPayload
         /\ events = <<>> )
           => slow_streak = 0

\* The uptime step of this cycle has evaluated the ratios: it recorded the
\* time of the cycle as last_uptime_check_at
EvaluatedRatios ==
    pc \in {"weekly", "persist"} /\ state.last_uptime_check_at = _iso(now)

\* C21: within one run of the loop, once a cycle has evaluated the uptime
\* ratios at time t, no later cycle evaluates them before
\* t + UPTIME_CHECK_EVERY_MINUTES minutes.
C21_UptimeCheckThrottled ==
    (restarts = 0 /\ EvaluatedRatios
        /\ g_begin.state.last_uptime_check_at # None)
    => now - Val(g_begin.state.last_uptime_check_at)
           >= cfg.uptime_check_every_minutes * Minute

\* The first value float() accepts among the values the payload holds for
\* one ratio, top-level names before nested ones; None when there is none
RECURSIVE FirstNumeric(_)
FirstNumeric(xs) ==
    IF xs = <<>>
    THEN None
    ELSE IF _try_float(Head(xs)) # None
         THEN _try_float(Head(xs))
         ELSE FirstNumeric(Tail(xs))

\* The payload carries a numeric ratio below min
CarriesLow(r, min) ==
    LET v == FirstNumeric(r.top \o r.nested) IN v # None /\ Val(v) < min

\* C22: whenever the uptime check runs, LowUptime24h is raised iff the
\* payload carries a numeric 24h ratio, top-level or nested, below
\* UPTIME_24H_MIN, and LowUptime7d iff it carries a numeric 7d ratio below
\* UPTIME_7D_MIN, for every ratio in [0, 100] and whichever of the two is
\* top-level or nested.
C22_LowUptimeIffBelowMin ==
    EvaluatedRatios =>
        /\ RaisedKind("LowUptime24h")
              <=> CarriesLow(payload.u24, cfg.uptime_24h_min)
        /\ RaisedKind("LowUptime7d")
              <=> CarriesLow(payload.u7, cfg.uptime_7d_min)

\* C23 (as claimed): an alert received on the webhook goes through the
\* dispatcher: it is dropped inside the minimum interval, and a successful
\* send is recorded as last_alert_sent_at.
C23_WebhookThroughDispatcher ==
    g_webhook # None =>
        /\ Val(g_webhook).limited => Val(g_webhook).result = "dropped"
        /\ Val(g_webhook).result = "sent" => Val(g_webhook).changed

\* C23: an alert received on the webhook is sent directly: it is never
\* dropped, whatever the time since the last alert, and the handler leaves
\* the state of the watcher and its document as they are (is_down, the
\* streaks, the weekly bucket and last_alert_sent_at).
C23_WebhookSendsDirectly ==
    g_webhook # None =>
        /\ Val(g_webhook).result # "dropped"
        /\ ~Val(g_webhook).changed

\* A webhook alert is delivered inside the minimum interval after an
\* OutageStart of the watcher
C23_Witness ==
    /\ g_webhook # None
    /\ Val(g_webhook).limited
    /\ Val(g_webhook).result = "sent"
    /\ state.is_down

\* C24: in probe mode the watcher goes from Up to Down, and raises
\* OutageStart, only after FAIL_CONSECUTIVE consecutive failed probes; a
\* successful probe resets the fail streak to 0, and fewer consecutive
\* failures never change is_down.
C24_FailHysteresis ==
    \A i \in 1..Len(events) :
        LET e == events[i]
            n == env.fail_consecutive
        IN  /\ (e.kind = "OutageStart" \/ (~e.was_down /\ e.is_down))
                  => /\ i >= n
                     /\ \A j \in (i - n + 1)..i : ~events[j].ok
                     /\ e.kind = "OutageStart" /\ ~e.was_down /\ e.is_down
            /\ e.ok => e.streak = 0
            /\ (~e.ok /\ e.streak < n) => e.is_down = e.was_down

\* With FAIL_CONSECUTIVE = 3: two failures, a success, then three failures,
\* the last of which raises the only OutageStart
C24_Witness ==
    /\ env.fail_consecutive = 3
    /\ Len(events) = 5
    /\ ~events[1].ok /\ events[2].ok
    /\ events[5].kind = "OutageStart"
    /\ \A i \in 1..4 : events[i].kind = "none"
    /\ state.is_down /\ fail_streak = 3

Rank(kind) ==
    CASE kind \in {"OutageStart", "Recovery"} -> 1
      [] kind = "SlowResponse"                -> 2
      [] kind = "LowUptime24h"                -> 3
      [] kind = "LowUptime7d"                 -> 4
      [] kind = "WeeklyReport"                -> 5

\* C26: the alerts of one cycle are dispatched in the order OutageStart or
\* Recovery, SlowResponse, LowUptime24h, LowUptime7d, WeeklyReport; once an
\* alert of the cycle was sent, every later non-bypass alert of the cycle is
\* dropped, so that a cycle delivers at most one non-bypass alert.
C26_OneNonBypassPerCycle ==
    /\ \A i, j \in 1..Len(events) :
           i < j =>
               /\ Rank(events[i].kind) < Rank(events[j].kind)
               /\ (Delivered(events[i].result) /\ ~events[j].bypass)
                      => events[j].result = "dropped"
    /\ Cardinality({ i \in 1..Len(events) :
                        ~events[i].bypass /\ Delivered(events[i].result) }) <= 1

\* A cycle raises all five kinds: the OutageStart is refused by the gateway,
\* the SlowResponse is sent, both LowUptime alerts are dropped and the
\* weekly report is sent
C26_Witness ==
    /\ Len(events) = 5
    /\ events[1].kind = "OutageStart" /\ events[1].result = "blibsend_error"
    /\ events[2].kind = "SlowResponse" /\ events[2].result = "sent"
    /\ events[3].kind = "LowUptime24h" /\ events[3].result = "dropped"
    /\ events[4].kind = "LowUptime7d" /\ events[4].result = "dropped"
    /\ events[5].kind = "WeeklyReport" /\ events[5].result = "sent"

\* C27: the process having been restarted after a completed cycle that
\* persisted is_down = true, a cycle that finds the monitor still Down raises
\* no OutageStart and leaves the incident counter, and the first cycle that
\* finds it Up raises Recovery and adds the time since the persisted
\* down_started_at_utc to downtime_seconds (no week rollover in between).
C27_OutageSurvivesRestart ==
    (g_boot # None /\ Val(g_boot).sample # "none" /\ pc # "transition") =>
        LET b         == Val(g_boot).weekly
            same_week == state.weekly.week_start_local = b.week_start_local
            started   == _parse_iso(b.down_started_at_utc)
        IN  IF Val(g_boot).sample = "down"
            THEN /\ ~RaisedKind("OutageStart")
                 /\ same_week => state.weekly.incidents = b.incidents
            ELSE /\ RaisedKind("Recovery")
                 /\ (same_week /\ started # None) =>
                        /\ g_recovery # None
                        /\ Val(g_recovery).added
                              = int_total_seconds(now - Val(started))
                        /\ state.weekly.downtime_seconds
                              = b.downtime_seconds + Val(g_recovery).added

\* Down, restart after the completed cycle, Down again, then Up: Recovery is
\* raised and the whole outage is added to downtime_seconds
C27_Witness ==
    /\ g_boot # None
    /\ Val(g_boot).sample = "up"
    /\ restarts = 1
    /\ g_prev = "down"
    /\ pc = "slow"
    /\ RaisedKind("Recovery")
    /\ Val(g_boot).weekly.down_started_at_utc # None
    /\ state.weekly.week_start_local = Val(g_boot).weekly.week_start_local
    /\ state.weekly.downtime_seconds
          = int_total_seconds(
                now - Val(_parse_iso(Val(g_boot).weekly.down_started_at_utc)))
    /\ state.weekly.downtime_seconds > 60

\* C28: the weekly report carries the counters of the bucket that is
\* current when it is sent: its period starts at the most recent Monday
\* 00:00 local and ends now (hour:minute of the schedule later), and when
\* the bucket rolled over in the cycle of the report, the report counts only
\* what that cycle itself recorded.
C28_ReportIsOfCurrentBucket ==
    \A i \in 1..Len(events) :
        events[i].kind = "WeeklyReport" =>
            LET m    == Val(events[i].report)
                span == m.week_end_local - m.week_start_local
                due  == cfg.weekly_report_hour * Hour
                          + cfg.weekly_report_minute * Minute
            IN  /\ m.week_start_local = _start_of_week_local(now_local(now))
                /\ m.week_end_local = now_local(now)
                /\ due <= span /\ span < due + Minute
                /\ m.incidents = state.weekly.incidents
                /\ m.downtime_seconds = state.weekly.downtime_seconds
                /\ m.slow_alerts = state.weekly.slow_alerts
                /\ Rolled =>
                      /\ m.incidents
                            = IF RaisedKind("OutageStart") THEN 1 ELSE 0
                      /\ m.slow_alerts = IF SlowRaised THEN 1 ELSE 0
                      /\ m.downtime_seconds = 0

\* The report of a Monday 09:00 whose cycle rolled the bucket over: the
\* incident and the slow alert of the week before are not in it
C28_Witness ==
    /\ Rolled
    /\ restarts = 0
    /\ g_begin.state.weekly.incidents = 1
    /\ g_begin.state.weekly.slow_alerts = 1
    /\ \E i \in 1..Len(events) :
           /\ events[i].kind = "WeeklyReport"
           /\ events[i].result = "sent"
           /\ Val(events[i].report).incidents = 0
           /\ Val(events[i].report).slow_alerts = 0
           /\ Val(events[i].report).week_start_local = Week

====
